---- MODULE Spec2Model ----
(***************************************************************************)
(* Model of the in-process loopback transport (src/src/inMemory.ts) and of *)
(* the Protocol engine's response routing as described by the transport-   *)
(* handling fix (src/unnamed/part_000).                                    *)
(*                                                                         *)
(* Five specifications share the module:                                   *)
(*   Spec         - a linked pair of InMemoryTransport endpoints           *)
(*                  exchanging messages: callback registration,            *)
(*                  setCustomContext, send with every option shape, start; *)
(*   CloseSpec    - the same pair being closed: callback registration,     *)
(*                  send, close, the resumption of its suspended frames    *)
(*                  and the return of their onclose callbacks;             *)
(*   LifeSpec     - CloseSpec together with start;                         *)
(*   StartLogSpec - send and start, with the outcome of each start() call  *)
(*                  logged;                                                *)
(*   EngineSpec   - one Protocol engine with several attached transports.  *)
(* The option objects and custom contexts are payload only (no branch of   *)
(* send, start or close reads them after the conversion of the options),   *)
(* so all but Spec send with no options.                                   *)
(***************************************************************************)
EXTENDS Integers, Sequences, FiniteSets

\* ---------------------------------------------------------------- bounds
MaxSends == 2        \* send() calls made on the pair
MaxCloses == 2       \* top-level close() calls made on the pair
MaxDepth == 1        \* nested start() flushes in progress at once
NumTransports == 2   \* transports offered to the engine
MaxRequests == 3     \* inbound requests handled by the engine

\* ------------------------------------------------------- InMemoryTransport
VARIABLES
  otherTransport,   \* _otherTransport of each endpoint: the peer, or None
  messageQueue,     \* _messageQueue of each endpoint
  customContext,    \* _customContext of each endpoint, "undefined" when unset
  onmessage,        \* whether an onmessage callback is registered
  onclose,          \* whether an onclose callback is registered
  flushStack,       \* start() calls whose while loop is in progress (innermost last)
  microtasks,       \* suspended close() continuations, in job-queue order
  received,         \* log: invocations of each endpoint's onmessage
  oncloseLog,       \* log: invocations of each endpoint's onclose (by close call)
  closeCalls,       \* log: top-level close() calls
  started,          \* log: start() has been called on the endpoint
  lastSetContext,   \* log: last argument of setCustomContext, "none" before
  accepted,         \* log: messages a successful send handed to each endpoint
  sends,            \* number of send() calls so far
  lastSend,         \* log: the last send() call and its outcome
  lastStart,        \* log: the last start() call and its outcome, where logged
  closing           \* the close() frame whose onclose callback is running, or NoJob

\* ------------------------------------------------------------ Protocol engine
VARIABLES
  transport,        \* Protocol._transport, 0 when undefined
  attached,         \* transports connected so far, in connect order
  requests,         \* inbound requests, index = request id
  sentVia           \* responses sent through each transport, in order

tvars == <<otherTransport, messageQueue, customContext, onmessage, onclose,
           flushStack, microtasks, received, oncloseLog, closeCalls, started,
           lastSetContext, accepted, sends, lastSend, lastStart, closing>>
evars == <<transport, attached, requests, sentVia>>
vars == <<tvars, evars>>

Ends == {"client", "server"}
None == "none"

Peer(e) == IF e = "client" THEN "server" ELSE "client"

\* createLinkedPair: each endpoint's _otherTransport is the other one.
CreateLinkedPair == [e \in Ends |-> Peer(e)]

\* ------------------------------------------------------------- JS objects
\* An object literal with the four keys the code inspects.  A key that is not
\* in the object is Absent; the value undefined itself is UNDEF.
Absent == "absent"
UNDEF == [undef |-> TRUE]
Obj(ri, cc, ai, rr) ==
  [requestInfo |-> ri, customContext |-> cc, authInfo |-> ai, relatedRequestId |-> rr]
EmptyObj == Obj(Absent, Absent, Absent, Absent)

\* `o && 'k' in o`
In(o, k) == o # UNDEF /\ o[k] # Absent

\* `{ ...o }`: spreading undefined yields no keys.
Spread(o) == IF o = UNDEF THEN EmptyObj ELSE o

\* The value setCustomContext is called with, and the option objects send is
\* called with: none, the old {relatedRequestId, authInfo} shape, and the new
\* MessageExtraInfo shape (with a customContext of the sender's) without and
\* with requestInfo.
CtxVals == {"ctx1"}
OptionShapes ==
  { UNDEF,
    Obj(Absent, Absent, "tok", "r1"),
    Obj(Absent, "ctxS", "tok", Absent),
    Obj("ri", "ctxS", "tok", Absent) }

\* Mutant: only the new format is recognised; authInfo alone is not.
ConvertOptionsNewOnly(options) ==
  IF In(options, "requestInfo") \/ In(options, "customContext")
    THEN options
    ELSE UNDEF

\* send, lines 65-76: "Handle both old and new API formats".
ConvertOptions(options) ==
  IF In(options, "authInfo") /\ ~In(options, "requestInfo")
    THEN [EmptyObj EXCEPT !.authInfo = options.authInfo]
  ELSE IF In(options, "requestInfo") \/ In(options, "customContext")
          \/ In(options, "authInfo")
    THEN options
  ELSE IF In(options, "authInfo")
    THEN [EmptyObj EXCEPT !.authInfo = options.authInfo]
  ELSE UNDEF

\* Mutant: the spread written last, so that a customContext among the
\* sender's options overrides the receiver's.
EnhancedExtraSpreadLast(extra, ctx) ==
  IF In(extra, "customContext")
    THEN Spread(extra)
    ELSE [Spread(extra) EXCEPT !.customContext = ctx]

\* `{ ...extra, customContext: ctx }`
EnhancedExtra(extra, ctx) == [Spread(extra) EXCEPT !.customContext = ctx]

\* Mutant: send uses the sending transport's own onmessage and queue.
SendTargetSelf(self) == IF otherTransport[self] = None THEN None ELSE self

\* send, line 78: the transport whose onmessage / queue a send on self uses.
SendTarget(self) == otherTransport[self]

\* Mutant: the sending transport's own custom context is merged.
SendContextOwn(self) == customContext[self]

\* send, line 82: the custom context merged into a directly delivered message.
SendContext(self) == customContext[otherTransport[self]]

\* start, line 41: the custom context merged into a flushed message.
StartContext(self) == customContext[self]

\* One invocation of self's onmessage, as logged.  An invocation made by
\* start() (line 43) is made after start() was called on self.
RecvEntry(self, qm, extra, via) ==
  [message |-> qm.message, extra |-> extra, sender |-> qm.sender,
   options |-> qm.options, via |-> via,
   started |-> (via = "start" \/ started[self]),
   stored |-> lastSetContext[self]]

\* `this.onmessage?.(message, extra)` on self: the log of self afterwards.
InvokeOnmessage(self, qm, extra, via) ==
  IF onmessage[self]
    THEN Append(received[self], RecvEntry(self, qm, extra, via))
    ELSE received[self]

\* Mutant: close clears its own link and leaves the peer's in place.
LinksAfterCloseOwn(self, links) == [links EXCEPT ![self] = None]

\* close, lines 48-50, up to the first suspension: self's link is cleared and
\* the peer's close() is entered before self awaits it.
RECURSIVE LinksAfterClose(_, _)
LinksAfterClose(self, links) ==
  IF links[self] = None
    THEN links
    ELSE LinksAfterClose(links[self], [links EXCEPT ![self] = None])

\* Mutant: close does not call the peer's close.
CloseOrderOwn(self, links) == <<self>>

\* close, lines 50-51: the close() frames one call creates, in the order in
\* which they resume and reach `this.onclose?.()`.  The innermost frame awaits
\* undefined and resumes first; each outer frame awaits the inner one's promise.
RECURSIVE CloseOrder(_, _)
CloseOrder(self, links) ==
  IF links[self] = None
    THEN <<self>>
    ELSE Append(CloseOrder(links[self], [links EXCEPT ![self] = None]), self)

\* No close() frame is in its onclose callback.
NoJob == [call |-> 0, frames |-> <<>>]

TInit ==
  /\ otherTransport = CreateLinkedPair
  /\ messageQueue = [e \in Ends |-> <<>>]
  /\ customContext = [e \in Ends |-> "undefined"]
  /\ onmessage = [e \in Ends |-> FALSE]
  /\ onclose = [e \in Ends |-> FALSE]
  /\ flushStack = <<>>
  /\ microtasks = <<>>
  /\ received = [e \in Ends |-> <<>>]
  /\ oncloseLog = [e \in Ends |-> <<>>]
  /\ closeCalls = <<>>
  /\ started = [e \in Ends |-> FALSE]
  /\ lastSetContext = [e \in Ends |-> "none"]
  /\ accepted = [e \in Ends |-> <<>>]
  /\ sends = 0
  /\ lastSend = [self |-> None]
  /\ lastStart = [self |-> None]
  /\ closing = NoJob

EInit ==
  /\ transport = 0
  /\ attached = <<>>
  /\ requests = <<>>
  /\ sentVia = [t \in 1..NumTransports |-> <<>>]

Init == TInit /\ EInit

\* `transport.onmessage = handler`
SetOnmessage(self) ==
  /\ ~onmessage[self]
  /\ onmessage' = [onmessage EXCEPT ![self] = TRUE]
  /\ UNCHANGED <<otherTransport, messageQueue, customContext, onclose, flushStack,
                 microtasks, received, oncloseLog, closeCalls, started,
                 lastSetContext, accepted, sends, lastSend, lastStart,
                 closing, evars>>

\* `transport.onclose = handler`
SetOnclose(self) ==
  /\ ~onclose[self]
  /\ onclose' = [onclose EXCEPT ![self] = TRUE]
  /\ UNCHANGED <<otherTransport, messageQueue, customContext, onmessage, flushStack,
                 microtasks, received, oncloseLog, closeCalls, started,
                 lastSetContext, accepted, sends, lastSend, lastStart,
                 closing, evars>>

\* setCustomContext(context)
SetCustomContext(self, context) ==
  /\ customContext[self] # context
  /\ customContext' = [customContext EXCEPT ![self] = context]
  /\ lastSetContext' = [lastSetContext EXCEPT ![self] = context]
  /\ UNCHANGED <<otherTransport, messageQueue, onmessage, onclose, flushStack,
                 microtasks, received, oncloseLog, closeCalls, started, accepted,
                 sends, lastSend, lastStart,
                 closing, evars>>

\* Mutant: the message is put in the other endpoint's queue before the link
\* is tested, so a send that throws has already buffered the message.
SendThrowLate(self, options) ==
  /\ sends < MaxSends
  /\ sends' = sends + 1
  /\ messageQueue' = [messageQueue EXCEPT ![Peer(self)] =
        Append(@, [message |-> sends + 1, extra |-> ConvertOptions(options),
                   sender |-> self, options |-> options])]
  /\ lastSend' = [self |-> self,
                  error |-> IF otherTransport[self] = None
                              THEN "Not connected" ELSE "none",
                  changed |-> TRUE,
                  afterClose |-> (closeCalls # <<>>),
                  selfStarted |-> started[self]]
  /\ UNCHANGED <<otherTransport, customContext, onmessage, onclose, flushStack,
                 microtasks, received, oncloseLog, closeCalls, started,
                 lastSetContext, accepted, lastStart, closing, evars>>

\* send(message, options).  The body has no await: it runs to its end (or to
\* the throw) when called.  The message is the number of the call.
Send(self, options) ==
  /\ sends < MaxSends
  /\ sends' = sends + 1
  /\ LET target == SendTarget(self)
         extra == ConvertOptions(options)
         qm == [message |-> sends + 1, extra |-> extra, sender |-> self,
                options |-> options]
     IN /\ IF target = None
             THEN UNCHANGED <<received, messageQueue, accepted>>
           ELSE /\ accepted' = [accepted EXCEPT ![target] =
                      Append(@, [message |-> sends + 1, started |-> started[target]])]
                /\ IF onmessage[target]
                     THEN /\ received' = [received EXCEPT ![target] =
                                InvokeOnmessage(target, qm,
                                   EnhancedExtra(extra, SendContext(self)), "send")]
                          /\ UNCHANGED messageQueue
                     ELSE /\ messageQueue' =
                                [messageQueue EXCEPT ![target] = Append(@, qm)]
                          /\ UNCHANGED received
        /\ lastSend' = [self |-> self,
                        error |-> IF target = None THEN "Not connected" ELSE "none",
                        changed |-> (received' # received \/ messageQueue' # messageQueue),
                        afterClose |-> (closeCalls # <<>>),
                        selfStarted |-> started[self]]
  /\ UNCHANGED <<otherTransport, customContext, onmessage, onclose, flushStack,
                 microtasks, oncloseLog, closeCalls, started, lastSetContext, lastStart,
                 closing, evars>>

\* Mutant: the head of the queue is read (`_messageQueue[0]`) and not shifted
\* off.
FlushOneNoShift(self) ==
  LET qm == Head(messageQueue[self])
  IN /\ UNCHANGED messageQueue
     /\ received' = [received EXCEPT ![self] =
           InvokeOnmessage(self, qm, EnhancedExtra(qm.extra, StartContext(self)),
                           "start")]

\* start, lines 37-43: one iteration of the while loop on a non-empty queue.
\* The queued message is shifted off and passed to onmessage, if there is one.
FlushOne(self) ==
  LET qm == Head(messageQueue[self])
  IN /\ messageQueue' = [messageQueue EXCEPT ![self] = Tail(@)]
     /\ received' = [received EXCEPT ![self] =
           InvokeOnmessage(self, qm, EnhancedExtra(qm.extra, StartContext(self)),
                           "start")]

\* start().  The body has no await.  With no onmessage registered the loop
\* runs through without calling out, so the whole queue is shifted away in one
\* step.  With an onmessage registered the loop calls out once per message;
\* whatever the callback calls runs between two iterations, so the call makes
\* the first iteration and leaves the loop in progress on flushStack.
Start(self) ==
  /\ started' = [started EXCEPT ![self] = TRUE]
  /\ IF messageQueue[self] = <<>>
       THEN UNCHANGED <<messageQueue, received, flushStack>>
     ELSE IF ~onmessage[self]
       THEN /\ messageQueue' = [messageQueue EXCEPT ![self] = <<>>]
            /\ UNCHANGED <<received, flushStack>>
     ELSE /\ Len(flushStack) < MaxDepth
          /\ FlushOne(self)
          /\ flushStack' = Append(flushStack, self)
  /\ UNCHANGED <<otherTransport, customContext, onmessage, onclose, microtasks,
                 oncloseLog, closeCalls, lastSetContext, accepted, sends, lastSend,
                 closing, evars>>

\* The innermost start() in progress gets control back from its callback:
\* the loop condition is tested again and the next message is flushed.
StartNext ==
  /\ flushStack # <<>>
  /\ messageQueue[flushStack[Len(flushStack)]] # <<>>
  /\ FlushOne(flushStack[Len(flushStack)])
  /\ UNCHANGED <<otherTransport, customContext, onmessage, onclose, flushStack,
                 microtasks, oncloseLog, closeCalls, started, lastSetContext,
                 accepted, sends, lastSend, lastStart,
                 closing, evars>>

\* ... or finds the queue empty and returns.
StartReturn ==
  /\ flushStack # <<>>
  /\ messageQueue[flushStack[Len(flushStack)]] = <<>>
  /\ flushStack' = SubSeq(flushStack, 1, Len(flushStack) - 1)
  /\ UNCHANGED <<otherTransport, messageQueue, customContext, onmessage, onclose,
                 microtasks, received, oncloseLog, closeCalls, started,
                 lastSetContext, accepted, sends, lastSend, lastStart,
                 closing, evars>>

\* close(), up to its await: the links are cleared through the nested close()
\* of the peer, and the frames created are left suspended.  The innermost one
\* is queued as a microtask.
Close(self) ==
  /\ Len(closeCalls) < MaxCloses
  /\ otherTransport' = LinksAfterClose(self, otherTransport)
  /\ closeCalls' = Append(closeCalls,
        [self |-> self, linked |-> otherTransport[self] # None,
         frames |-> CloseOrder(self, otherTransport), onclose |-> onclose])
  /\ microtasks' = Append(microtasks,
        [call |-> Len(closeCalls) + 1, frames |-> CloseOrder(self, otherTransport)])
  /\ UNCHANGED <<messageQueue, customContext, onmessage, onclose, flushStack,
                 received, oncloseLog, started, lastSetContext, accepted, sends,
                 lastSend, lastStart,
                 closing, evars>>

\* `this.onclose?.()` on self, made by close call number `call`.
InvokeOnclose(self, call) ==
  IF onclose[self] THEN Append(oncloseLog[self], call) ELSE oncloseLog[self]

\* close(), lines 50-52: what a frame's return does.  It fulfils the promise
\* the frame around it awaits, so that frame is queued behind whatever is in
\* the job queue by then; the outermost frame's return queues nothing.
QueueAwaiter(queue, job) ==
  IF job.frames = <<>> THEN queue ELSE Append(queue, job)

\* close(), line 51: the first suspended frame in the microtask queue resumes
\* once no synchronous code is running, and calls `this.onclose?.()`.  With a
\* callback registered the frame stays in the call until the callback has
\* returned; with none it returns at once.
CloseResume ==
  /\ flushStack = <<>>
  /\ closing = NoJob
  /\ microtasks # <<>>
  /\ LET job == Head(microtasks)
         self == Head(job.frames)
         rest == [call |-> job.call, frames |-> Tail(job.frames)]
     IN /\ oncloseLog' = [oncloseLog EXCEPT ![self] = InvokeOnclose(self, job.call)]
        /\ IF onclose[self]
             THEN /\ microtasks' = Tail(microtasks)
                  /\ closing' = rest
             ELSE /\ microtasks' = QueueAwaiter(Tail(microtasks), rest)
                  /\ closing' = NoJob
  /\ UNCHANGED <<otherTransport, messageQueue, customContext, onmessage, onclose,
                 flushStack, received, closeCalls, started, lastSetContext, accepted,
                 sends, lastSend, lastStart,
                 evars>>

\* close(), lines 51-52: the onclose callback returns, with whatever it called
\* done, and the frame returns after it.
CloseReturn ==
  /\ flushStack = <<>>
  /\ closing # NoJob
  /\ microtasks' = QueueAwaiter(microtasks, closing)
  /\ closing' = NoJob
  /\ UNCHANGED <<otherTransport, messageQueue, customContext, onmessage, onclose,
                 flushStack, received, oncloseLog, closeCalls, started,
                 lastSetContext, accepted, sends, lastSend, lastStart,
                 evars>>

Next ==
  \/ \E self \in Ends : SetOnmessage(self)
  \/ \E self \in Ends, context \in CtxVals : SetCustomContext(self, context)
  \/ \E self \in Ends, options \in OptionShapes : Send(self, options)
  \/ \E self \in Ends : Start(self) /\ UNCHANGED lastStart
  \/ StartNext
  \/ StartReturn

Spec == Init /\ [][Next]_vars

CloseNext ==
  \/ \E self \in Ends : SetOnmessage(self)
  \/ \E self \in Ends : SetOnclose(self)
  \/ \E self \in Ends : Send(self, UNDEF)
  \/ \E self \in Ends : Close(self)
  \/ CloseResume
  \/ CloseReturn

CloseSpec == Init /\ [][CloseNext]_vars

\* The whole life of the pair: messages buffered, the pair closed, start()
\* called before and after.
LifeNext ==
  \/ \E self \in Ends : SetOnmessage(self)
  \/ \E self \in Ends : SetOnclose(self)
  \/ \E self \in Ends : Send(self, UNDEF)
  \/ \E self \in Ends : Start(self) /\ UNCHANGED lastStart
  \/ StartNext
  \/ StartReturn
  \/ \E self \in Ends : Close(self)
  \/ CloseResume
  \/ CloseReturn

LifeSpec == Init /\ [][LifeNext]_vars

\* start() with its outcome logged: the call returns normally whether or not
\* start() had been called before (the body holds no test and no throw).
StartLogged(self) ==
  /\ Start(self)
  /\ lastStart' = [self |-> self, again |-> started[self], error |-> "none"]

StartLogNext ==
  \/ \E self \in Ends : SetOnmessage(self)
  \/ \E self \in Ends : Send(self, UNDEF)
  \/ \E self \in Ends : StartLogged(self)
  \/ StartNext
  \/ StartReturn

StartLogSpec == Init /\ [][StartLogNext]_vars

\* ---------------------------------------------------------- Protocol engine
Transports == 1..NumTransports

Range(seq) == {seq[i] : i \in DOMAIN seq}

\* The requests whose handler has not completed yet.
Pending == {id \in DOMAIN requests : ~requests[id].done}

\* connect(transport): the single _transport reference is overwritten by each
\* call, and the transports connected earlier keep delivering their requests.
Connect(t) ==
  /\ t \notin Range(attached)
  /\ transport' = t
  /\ attached' = Append(attached, t)
  /\ UNCHANGED <<requests, sentVia, tvars>>

\* `const capturedTransport = this._transport`, evaluated when a request
\* arrives.
CapturedTransport == transport

\* A request arrives from the attached transport t; its id is its number.
\* The record keeps what the handler's closure holds, and as a log the
\* transports attached and the requests pending at the time.
OnRequest(t) ==
  /\ t \in Range(attached)
  /\ Len(requests) < MaxRequests
  /\ requests' = Append(requests,
        [from |-> t, capturedTransport |-> CapturedTransport, done |-> FALSE,
         attachedAt |-> attached, pendingAt |-> Pending])
  /\ UNCHANGED <<transport, attached, sentVia, tvars>>

\* Mutant: the code before the fix, `this._transport?.send(...)`, read when
\* the handler completes.
ResponseTransportCurrent(id) == transport

\* `capturedTransport?.send({ result, jsonrpc: "2.0", id: request.id })`
ResponseTransport(id) == requests[id].capturedTransport

\* The handler of request id completes and its response is sent.
HandlerComplete(id) ==
  /\ ~requests[id].done
  /\ requests' = [requests EXCEPT ![id].done = TRUE]
  /\ sentVia' = [sentVia EXCEPT ![ResponseTransport(id)] = Append(@, id)]
  /\ UNCHANGED <<transport, attached, tvars>>

EngineNext ==
  \/ \E t \in Transports : Connect(t)
  \/ \E t \in Transports : OnRequest(t)
  \/ \E id \in DOMAIN requests : HandlerComplete(id)

EngineSpec == Init /\ [][EngineNext]_vars

\* ================================================================== claims

\* C1: transport isolation - the response to a request received on transport
\* T_i is sent only through T_i, never through another transport, whether the
\* other transport was attached before the request arrived or while its
\* handler was running.
C1_TransportIsolation ==
  \A t \in Transports : \A i \in DOMAIN sentVia[t] :
    requests[sentVia[t][i]].from = t

\* The regression scenario, as far as the requests go: request 1 came from a
\* when a was the only transport attached, request 2 came from b when exactly
\* a and b were attached and request 1 was still being handled, and there is
\* no other request.
Scenario(a, b) ==
  /\ a # b
  /\ Len(requests) = 2
  /\ requests[1].from = a /\ requests[1].attachedAt = <<a>>
  /\ requests[2].from = b /\ requests[2].attachedAt = <<a, b>>
  /\ 1 \in requests[2].pendingAt

\* C2: in the regression scenario (A connects, request 1 from A, B connects
\* and sends request 2 while request 1 is being handled), once both handlers
\* have completed, in either order, A has received exactly the response to 1
\* and B exactly the response to 2; B never receives the response to 1.
C2_RegressionScenario ==
  \A a, b \in Transports :
    Scenario(a, b) =>
      /\ \A i \in DOMAIN sentVia[b] : sentVia[b][i] # 1
      /\ (requests[1].done /\ requests[2].done) =>
            /\ sentVia[a] = <<1>>
            /\ sentVia[b] = <<2>>

\* C2 witness: the scenario has run to its end, with a transport connected
\* after request 2 had arrived where there is one.
C2_Witness ==
  \E a, b \in Transports :
    /\ Scenario(a, b)
    /\ requests[1].done /\ requests[2].done
    /\ sentVia[b] = <<2>>
    /\ transport # a

\* The positions of seq that hold x.
Occurrences(seq, x) == {i \in DOMAIN seq : seq[i] = x}

\* C3: in a linked pair a send on A only ever reaches B - every message in an
\* endpoint's onmessage log or queue was sent on the other endpoint, never on
\* the endpoint itself.
C3_SendReachesPeerOnly ==
  \A e \in Ends :
    /\ \A i \in DOMAIN received[e] : received[e][i].sender = Peer(e)
    /\ \A i \in DOMAIN messageQueue[e] : messageQueue[e][i].sender = Peer(e)

\* C3 witness: one send was delivered to the peer's onmessage and another was
\* appended to the peer's queue.
C3_Witness ==
  \E e \in Ends :
    /\ received[e] # <<>> /\ received[e][1].via = "send"
    /\ messageQueue[Peer(e)] # <<>>

\* C4: FIFO per connection - an endpoint's onmessage receives the messages in
\* the order the sends were accepted, and no message is delivered before an
\* earlier one that is still buffered.
C4_FifoPerConnection ==
  \A e \in Ends :
    /\ \A i, j \in DOMAIN received[e] :
         i < j => received[e][i].message < received[e][j].message
    /\ \A i \in DOMAIN received[e] : \A j \in DOMAIN messageQueue[e] :
         received[e][i].message < messageQueue[e][j].message

\* C5: buffering before start - a message sent to B before B.start() is held
\* in B's buffer and not passed to B's onmessage until B.start() runs; start
\* then delivers all buffered messages in arrival order and leaves the buffer
\* empty.
C5_BufferedUntilStart ==
  \A e \in Ends :
    /\ ~started[e] =>
         /\ received[e] = <<>>
         /\ [i \in DOMAIN messageQueue[e] |-> messageQueue[e][i].message]
              = [i \in DOMAIN accepted[e] |-> accepted[e][i].message]
    /\ (started[e] /\ e \notin Range(flushStack)) =>
         \A i \in DOMAIN accepted[e] :
           ~accepted[e][i].started =>
             /\ \E j \in DOMAIN received[e] :
                  received[e][j].message = accepted[e][i].message
             /\ \A j \in DOMAIN messageQueue[e] :
                  messageQueue[e][j].message # accepted[e][i].message

\* C6: close callback exactly once - however many close() calls are made on
\* the endpoints of a pair, each transport's onclose is invoked exactly once
\* in total: never more than once, and once when every close() has finished
\* (for a callback registered before the first call).
C6_OncloseExactlyOnce ==
  \A e \in Ends :
    /\ Len(oncloseLog[e]) <= 1
    /\ (closeCalls # <<>> /\ microtasks = <<>> /\ closing = NoJob
          /\ closeCalls[1].onclose[e]) =>
         Len(oncloseLog[e]) = 1

\* C7: after close() has been called on either endpoint, every later send()
\* on either endpoint fails with an error and neither delivers the message to
\* an onmessage nor appends it to a queue.
C7_SendAfterCloseFails ==
  (lastSend.self # None /\ lastSend.afterClose) =>
    /\ lastSend.error = "Not connected"
    /\ ~lastSend.changed

\* C7 witness: a send on the endpoint that was not the one closed has failed
\* after a close.
C7_Witness ==
  /\ lastSend.self # None
  /\ lastSend.afterClose
  /\ lastSend.error = "Not connected"
  /\ lastSend.self # closeCalls[1].self

\* C8: close propagation - a close() call on endpoint A of a linked pair runs
\* B's close and invokes B's onclose exactly once as a result of that call
\* (never twice; once when the call has finished, for a callback registered
\* before it); a further close() call on A finds no link and does not reach B.
C8_ClosePropagatesOnce ==
  \A k \in DOMAIN closeCalls :
    LET c == closeCalls[k]
        b == Peer(c.self)
        n == Cardinality(Occurrences(oncloseLog[b], k))
        pending == \/ \E j \in DOMAIN microtasks : microtasks[j].call = k
                   \/ closing.call = k
    IN /\ c.linked =>
            /\ b \in Range(c.frames)
            /\ n <= 1
            /\ (~pending /\ c.onclose[b]) => n = 1
       /\ ~c.linked => (b \notin Range(c.frames) /\ n = 0)
       /\ \A k2 \in DOMAIN closeCalls :
            (k < k2 /\ closeCalls[k2].self = c.self) => ~closeCalls[k2].linked

\* C8 witness: two close() calls on the same endpoint have finished; the
\* first reached the peer, whose onclose was invoked by it and by nothing else.
C8_Witness ==
  /\ Len(closeCalls) >= 2
  /\ closeCalls[1].self = closeCalls[2].self
  /\ closeCalls[1].linked
  /\ microtasks = <<>> /\ closing = NoJob
  /\ oncloseLog[Peer(closeCalls[1].self)] = <<1>>

\* C9: custom context round trip - once setCustomContext(c) has been called
\* on B, every message passed to B's onmessage carries customContext = c,
\* whether send delivered it directly or start() flushed it from the buffer.
C9_CustomContextRoundTrip ==
  \A e \in Ends : \A i \in DOMAIN received[e] :
    received[e][i].stored # "none" =>
      received[e][i].extra.customContext = received[e][i].stored

\* C9 witness: an endpoint with a custom context set has received one message
\* directly and one from its buffer, both sent with a customContext of the
\* sender's among the options.
C9_Witness ==
  \E e \in Ends : \E i, j \in DOMAIN received[e] :
    /\ received[e][i].via = "send" /\ received[e][j].via = "start"
    /\ received[e][i].stored # "none" /\ received[e][j].stored # "none"
    /\ In(received[e][i].options, "customContext")
    /\ In(ConvertOptions(received[e][j].options), "customContext")

\* C11: start() fails when it is called on a transport that has already been
\* started; a second start() does not succeed silently.
C11_SecondStartFails ==
  (lastStart.self # None /\ lastStart.again) => lastStart.error # "none"

\* C10: send() on a transport whose start() has not been called fails with a
\* not-connected error and delivers or buffers nothing.
C10_SendBeforeStartFails ==
  (lastSend.self # None /\ ~lastSend.selfStarted) =>
    /\ lastSend.error = "Not connected"
    /\ ~lastSend.changed

\* C12: a send() that fails leaves the transport state unchanged - the peer
\* links, both queues, both custom contexts and the registered callbacks are
\* as before, no callback is invoked and no pending close frame is touched,
\* so that whatever is called next behaves as if the call had not been made.
C12_FailedSendChangesNothing ==
  [][(sends' # sends /\ lastSend'.error # "none") =>
       UNCHANGED <<otherTransport, messageQueue, customContext, onmessage,
                   onclose, flushStack, microtasks, received, oncloseLog,
                   closeCalls, started, accepted, closing>>]_vars

\* C12 witness: a send has failed while a message was buffered and a close
\* was still to resume.
C12_Witness ==
  /\ lastSend.self # None
  /\ lastSend.error = "Not connected"
  /\ \E e \in Ends : messageQueue[e] # <<>>
  /\ microtasks # <<>>

\* What onmessage is handed as customContext when the receiving transport
\* holds the stored context `stored` ("none": setCustomContext never called).
StoredContext(stored) == IF stored = "none" THEN "undefined" ELSE stored

\* C13: the receiving side's context wins - the customContext passed to B's
\* onmessage equals B's own stored context at delivery time (undefined when B
\* has none), whatever customContext the sender put in its options and
\* whatever the sender's own stored context is.
C13_ReceiverContextWins ==
  \A e \in Ends : \A i \in DOMAIN received[e] :
    /\ In(received[e][i].extra, "customContext")
    /\ received[e][i].extra.customContext = StoredContext(received[e][i].stored)

\* C13 witness: an endpoint with no context of its own has received, both
\* directly and from its buffer, messages sent with a customContext in the
\* options by a peer that holds a context of its own.
C13_Witness ==
  \E e \in Ends : \E i, j \in DOMAIN received[e] :
    /\ customContext[Peer(e)] \in CtxVals
    /\ lastSetContext[e] = "none"
    /\ received[e][i].via = "send" /\ received[e][j].via = "start"
    /\ In(received[e][i].options, "customContext")
    /\ In(received[e][j].options, "customContext")
    /\ received[e][i].extra.customContext = "undefined"

\* C14: auth info pass-through - an authInfo given in the options of a
\* successful send, in the old {relatedRequestId, authInfo} shape or in the
\* new MessageExtraInfo shape, reaches the peer's onmessage unchanged with
\* that message, on direct delivery and on a flush by start().
C14_AuthInfoPassThrough ==
  \A e \in Ends : \A i \in DOMAIN received[e] :
    In(received[e][i].options, "authInfo") =>
      /\ In(received[e][i].extra, "authInfo")
      /\ received[e][i].extra.authInfo = received[e][i].options.authInfo

\* C14 witness: an endpoint has received a message sent with the old shape
\* directly and a message sent with the new shape from its buffer.
C14_Witness ==
  \E e \in Ends : \E i, j \in DOMAIN received[e] :
    /\ received[e][i].via = "send" /\ received[e][j].via = "start"
    /\ received[e][i].options = Obj(Absent, Absent, "tok", "r1")
    /\ received[e][j].options = Obj("ri", "ctxS", "tok", Absent)
    /\ received[e][j].extra.authInfo = "tok"

\* The messages (send call numbers) in a log or queue.
Messages(seq) == {seq[i].message : i \in DOMAIN seq}

\* C16: no message loss - every message a successful send accepted has been
\* passed to the peer's onmessage or is still in the peer's queue, whatever
\* sequence of start(), send() and callback registration was made (start()
\* with no onmessage registered included).
C16_NoMessageLoss ==
  \A e \in Ends :
    Messages(accepted[e]) \subseteq Messages(received[e]) \cup Messages(messageQueue[e])

\* C17: at-most-once delivery - a message accepted by a successful send is
\* passed to the peer's onmessage at most once, and not while it is still in
\* the queue, for any number of start() calls and with sends made while a
\* flush is in progress.
C17_AtMostOnce ==
  \A e \in Ends :
    /\ \A i, j \in DOMAIN received[e] :
         received[e][i].message = received[e][j].message => i = j
    /\ \A i, j \in DOMAIN messageQueue[e] :
         messageQueue[e][i].message = messageQueue[e][j].message => i = j
    /\ Messages(received[e]) \cap Messages(messageQueue[e]) = {}

\* C17 witness: while a start() was flushing an endpoint's queue, a send made
\* from the callback was delivered to that endpoint, which had been started
\* before.
C17_Witness ==
  \E e \in Ends :
    /\ e \in Range(flushStack)
    /\ Len(received[e]) = 2
    /\ received[e][1].via = "start" /\ received[e][2].via = "send"

\* C15: closed is terminal - once a transport's onclose has been invoked its
\* onmessage is never invoked again; a start() after the close does not
\* deliver the messages still buffered.
C15_ClosedIsTerminal ==
  [][\A e \in Ends : oncloseLog[e] # <<>> => received'[e] = received[e]]_vars

\* C18: peer-link symmetry - wherever a callback is invoked and in every
\* quiescent state either both endpoints point at each other or both have no
\* peer; exactly one endpoint holding a link is never observable.
C18_PeerLinkSymmetry ==
  \/ \A e \in Ends : otherTransport[e] = Peer(e)
  \/ \A e \in Ends : otherTransport[e] = None

\* C18 witness: the pair has been closed from one end after a message was
\* delivered, the other end's onclose has been invoked, and no link is left.
C18_Witness ==
  \E e \in Ends :
    /\ received[e] # <<>>
    /\ closeCalls # <<>> /\ closeCalls[1].self = Peer(e)
    /\ oncloseLog[e] # <<>>
    /\ \A x \in Ends : otherTransport[x] = None

====
